---- MODULE Spec2Model ----
(***************************************************************************)
(* Face-matching and attendance-state engine of student_attendance.        *)
(*                                                                         *)
(* The database tables are the state: students, face_images,               *)
(* attendance_sessions and session_logs.  Request handlers and the         *)
(* background recognition thread are tasks; mark_attendance is split into  *)
(* its database round trips (get, create, save) so that concurrent calls   *)
(* interleave as they do against the database.                             *)
(*                                                                         *)
(* Spec      one recognition task (a request or a streaming thread) at a   *)
(*           time, interleaved with session creation, initialize, end and  *)
(*           the clock;                                                    *)
(* SpecRace  two recognition tasks running concurrently on one session;    *)
(* SpecMatch the matcher alone, over all small known sets and frames;      *)
(* SpecEnroll  an enrollment request next to one recognition task;         *)
(* SpecLoad  load_known_faces alone, over the contents of the tables;      *)
(* SpecStream  one task on a video file of finitely many frames, over      *)
(*           several stores, with a student being deactivated;             *)
(*           SpecStreamFair is the same with the thread scheduled fairly;  *)
(* SpecPair  two sessions side by side, each with its recognition task.    *)
(*                                                                         *)
(* Numbers: an embedding component c stands for c/10, a distance or a      *)
(* confidence d stands for d/1000 (so the tolerance 0.6 is 600).           *)
(***************************************************************************)
EXTENDS Integers, Sequences, FiniteSets, TLC

VARIABLES students, faceImages, sessions, sessionLogs, now, task,
          matchIn, matchOut, loaded, source

vars == <<students, faceImages, sessions, sessionLogs, now, task,
          matchIn, matchOut, loaded, source>>

dbVars == <<students, faceImages, sessions, sessionLogs>>

----------------------------------------------------------------------------
(* Bounds of the model *)

MaxSessions == 1
MaxTime == 1
MaxKnown == 2
MaxFrames == 2

(* Program constants *)

Null == -1
One == 1000
Tolerance == 600
(* components are tenths, distances thousandths: (1000/10)^2 *)
Fixed == (One \div 10) * (One \div 10)

Tasks == {"t1", "t2"}
(* The task that runs in Spec; SpecRace runs both *)
SingleTask == {"t1"}
StudentIds == {"s1", "s2", "s3"}
Courses == {"COET", "BIT"}
(* The course the create requests of the model ask for *)
SessionCourses == {"COET"}
Angles == <<"front", "left", "right">>
None == "None"

----------------------------------------------------------------------------
(* Embeddings and the face_recognition distance *)

RECURSIVE ISqrtIter(_, _, _)
ISqrtIter(n, lo, hi) ==
    IF lo >= hi THEN lo
    ELSE LET mid == (lo + hi + 1) \div 2
         IN  IF mid * mid <= n THEN ISqrtIter(n, mid, hi)
                               ELSE ISqrtIter(n, lo, mid - 1)

ISqrt(n) == ISqrtIter(n, 0, 20000)

Sq(x) == x * x

(* numpy.linalg.norm(known - query), in thousandths *)
Norm(a, b) == ISqrt((Sq(a[1] - b[1]) + Sq(a[2] - b[2])) * Fixed)

(* face_recognition.face_distance: one distance per known encoding *)
FaceDistance(known_encodings, face_encoding) ==
    [i \in 1..Len(known_encodings) |-> Norm(known_encodings[i], face_encoding)]

(* Variant: among equal distances the last one is taken *)
RECURSIVE ArgMinFromLast(_, _, _)
ArgMinFromLast(d, i, best) ==
    IF i > Len(d) THEN best
    ELSE ArgMinFromLast(d, i + 1, IF d[i] <= d[best] THEN i ELSE best)

RECURSIVE ArgMinFrom(_, _, _)
ArgMinFrom(d, i, best) ==
    IF i > Len(d) THEN best
    ELSE ArgMinFrom(d, i + 1, IF d[i] < d[best] THEN i ELSE best)

(* numpy.argmin: index of the first minimal element *)
ArgMin(d) == ArgMinFrom(d, 2, 1)

NoMatch == [student_id |-> None, confidence |-> Null]

(* Variant: the tolerance bound taken as exclusive *)
RecognizeFaceExclusive(frame, known_encodings, known_student_ids) ==
    IF Len(frame) = 0 \/ Len(known_encodings) = 0 THEN NoMatch
    ELSE LET face_distances == FaceDistance(known_encodings, frame[1])
             best_match_index == ArgMin(face_distances)
         IN  IF face_distances[best_match_index] < Tolerance
             THEN [student_id |-> known_student_ids[best_match_index],
                   confidence |-> One - face_distances[best_match_index]]
             ELSE NoMatch

(* Variant: the nearest known identity, however far away it is *)
RecognizeFaceNearest(frame, known_encodings, known_student_ids) ==
    IF Len(frame) = 0 \/ Len(known_encodings) = 0 THEN NoMatch
    ELSE LET face_distances == FaceDistance(known_encodings, frame[1])
             best_match_index == ArgMin(face_distances)
         IN  [student_id |-> known_student_ids[best_match_index],
              confidence |-> One - face_distances[best_match_index]]

(* A frame is the sequence of face encodings the extractor finds in it. *)
RecognizeFaceFromFrame(frame, known_encodings, known_student_ids) ==
    IF Len(frame) = 0 THEN NoMatch
    ELSE LET face_encoding == frame[1]
             face_distances == FaceDistance(known_encodings, face_encoding)
         IN  IF Len(face_distances) > 0
             THEN LET best_match_index == ArgMin(face_distances)
                      confidence == One - face_distances[best_match_index]
                  IN  IF face_distances[best_match_index] <= Tolerance
                      THEN [student_id |-> known_student_ids[best_match_index],
                            confidence |-> confidence]
                      ELSE NoMatch
             ELSE NoMatch

----------------------------------------------------------------------------
(* The tables *)

(* Student rows: course is fixed by the id here; is_active defaults True. *)
CourseOf(student_id) == IF student_id = "s3" THEN "BIT" ELSE "COET"

StudentExists(student_id) == students[student_id].exists

(* Student.objects.filter(is_active=True) *)
ActiveStudents == {st \in StudentIds : students[st].exists /\ students[st].is_active}

(* Student.objects.filter(is_active=True, course=course) *)
ActiveStudentsIn(course) == {st \in ActiveStudents : students[st].course = course}

(* FaceImage rows a successful enrollment of one student leaves behind *)
EnrolledImages(student_id, front, left, right, at) ==
    << [student |-> student_id, angle |-> "front", face_encoding |-> front,
        captured_at |-> at, is_active |-> TRUE],
       [student |-> student_id, angle |-> "left", face_encoding |-> left,
        captured_at |-> at, is_active |-> TRUE],
       [student |-> student_id, angle |-> "right", face_encoding |-> right,
        captured_at |-> at, is_active |-> TRUE] >>

(* Variant: the filter without student__is_active *)
RECURSIVE FilterKnownAnyStudent(_, _, _)
FilterKnownAnyStudent(rows, i, course) ==
    IF i = 0 THEN << >>
    ELSE LET r == rows[i]
             keep == /\ r.angle = "front"
                     /\ r.is_active
                     /\ students[r.student].exists
                     /\ (course # None => students[r.student].course = course)
                     /\ r.face_encoding # << >>
         IN  (IF keep THEN << r >> ELSE << >>)
             \o FilterKnownAnyStudent(rows, i - 1, course)

RECURSIVE FilterKnown(_, _, _)
FilterKnown(rows, i, course) ==
    IF i = 0 THEN << >>
    ELSE LET r == rows[i]
             keep == /\ r.angle = "front"
                     /\ r.is_active
                     /\ students[r.student].exists
                     /\ students[r.student].is_active
                     /\ (course # None => students[r.student].course = course)
                     /\ r.face_encoding # << >>
         IN  (IF keep THEN << r >> ELSE << >>) \o FilterKnown(rows, i - 1, course)

(* Variant: only the first row of the query is taken *)
LoadKnownFacesFirstOnly(course) ==
    LET rows == FilterKnown(faceImages, Len(faceImages), course)
        n == IF Len(rows) > 0 THEN 1 ELSE 0
    IN  [known_encodings   |-> [i \in 1..n |-> rows[i].face_encoding],
         known_student_ids |-> [i \in 1..n |-> rows[i].student]]

(* load_known_faces: rows come in the table's default order, newest first;  *)
(* faceImages is kept in insertion order, so the scan runs from its end.    *)
LoadKnownFaces(course) ==
    LET rows == FilterKnown(faceImages, Len(faceImages), course)
    IN  [known_encodings   |-> [i \in 1..Len(rows) |-> rows[i].face_encoding],
         known_student_ids |-> [i \in 1..Len(rows) |-> rows[i].student]]

(* AttendanceSession.is_active on a session object, at wall-clock time t *)
IsActive(session, t) ==
    session.status = "active" /\ session.start_time <= t /\ t <= session.end_time

SessionIds == 1..MaxSessions

ExistingSessions == 1..Len(sessions)

(* The (start_time, end_time) window a create request carries *)
Windows == {<<0, 0>>}

(* A SessionLog row as created with defaults={'status': 'absent'} *)
NewLog == [status |-> "absent", recognized_at |-> Null,
           confidence_score |-> Null, recognized_image |-> None]

(* Variant: the table without its unique constraint *)
UniqueViolationOff(logs, s, st) == FALSE

(* unique_together = ['session', 'student'] *)
UniqueViolation(logs, s, st) == Len(logs[s][st]) > 0

(* SessionLog.objects.create: the insert, refused by the unique constraint *)
CreateLog(logs, s, st) ==
    IF UniqueViolation(logs, s, st) THEN logs
    ELSE [logs EXCEPT ![s][st] = Append(@, NewLog)]

(* Variant: update_or_create, which writes the defaults to an existing row *)
GetOrCreateReset(logs, s, st) ==
    IF Len(logs[s][st]) > 0 THEN [logs EXCEPT ![s][st] = << NewLog >>]
    ELSE CreateLog(logs, s, st)

(* SessionLog.objects.get_or_create(session, student, defaults) in one piece *)
GetOrCreate(logs, s, st) ==
    IF Len(logs[s][st]) > 0 THEN logs ELSE CreateLog(logs, s, st)

RECURSIVE InitializeLogs(_, _, _)
(* initialize_session_logs: get_or_create for every active student *)
InitializeLogs(logs, s, todo) ==
    IF todo = {} THEN logs
    ELSE LET st == CHOOSE x \in todo : TRUE
         IN  InitializeLogs(GetOrCreate(logs, s, st), s, todo \ {st})

(* Variant: the session's logs deleted and created afresh *)
InitializeFresh(logs, s) ==
    [logs EXCEPT ![s] = [st \in StudentIds |->
                           IF st \in ActiveStudents THEN << NewLog >> ELSE << >>]]

InitializeSessionLogs(logs, s) == InitializeLogs(logs, s, ActiveStudents)

(* Variant: mark_present that forgets the timestamp *)
MarkPresentNoStamp(log, confidence, image, t) ==
    [log EXCEPT !.status = "present",
                !.confidence_score = IF confidence # 0 THEN confidence ELSE @]

(* Variant: mark_present that leaves an already present record alone *)
MarkPresentKeepFirst(log, confidence, image, t) ==
    IF log.status = "present" THEN log
    ELSE [log EXCEPT !.status = "present", !.recognized_at = t,
                     !.confidence_score = IF confidence # 0 THEN confidence ELSE @]

(* SessionLog.mark_present followed by save(): every field is written *)
MarkPresent(log, confidence, image, t) ==
    [status           |-> "present",
     recognized_at    |-> t,
     confidence_score |-> IF confidence # 0 THEN confidence ELSE log.confidence_score,
     recognized_image |-> IF image # None THEN image ELSE log.recognized_image]

(* session_logs.filter(status='present').count() *)
RECURSIVE PresentLogs(_, _)
PresentLogs(s, todo) ==
    IF todo = {} THEN 0
    ELSE LET st == CHOOSE x \in todo : TRUE
         IN  Len(SelectSeq(sessionLogs[s][st], LAMBDA r : r.status = "present"))
             + PresentLogs(s, todo \ {st})

(* Variant: the total taken from the session's logs instead of the course *)
GetAttendanceStatisticsOfLogs(s) ==
    LET total_students == Cardinality({st \in StudentIds : Len(sessionLogs[s][st]) > 0})
        present_count == PresentLogs(s, StudentIds)
    IN  [total_students |-> total_students,
         present_count |-> present_count,
         absent_count |-> total_students - present_count,
         attendance_percentage |->
             IF total_students > 0
             THEN ((present_count * One) \div total_students) * 100 ELSE 0]

(* AttendanceSession.get_attendance_statistics; the percentage is in       *)
(* thousandths of a percent                                                *)
GetAttendanceStatistics(s) ==
    LET total_students == Cardinality(ActiveStudentsIn(sessions[s].course))
        present_count == PresentLogs(s, StudentIds)
        absent_count == total_students - present_count
    IN  [total_students |-> total_students,
         present_count |-> present_count,
         absent_count |-> absent_count,
         attendance_percentage |->
             IF total_students > 0
             THEN ((present_count * One) \div total_students) * 100 ELSE 0]

----------------------------------------------------------------------------
(* Initial store: three enrolled students, two in COET and one in BIT *)

E_s1 == <<0, 0>>
E_s2 == <<10, 0>>
E_s3 == <<0, 8>>
E_side == <<80, 80>>

(* What the camera or an upload shows: no face, s1, s1 turned a little,    *)
(* s3, and a stranger at distance 1.0 from s1.                             *)
Frames == { << >>, <<E_s1>>, <<(<<3, 0>>)>>, <<E_s3>>, <<(<<0, -10>>)>> }

NoSession == [id |-> 0, course |-> None, start_time |-> 0, end_time |-> 0,
              status |-> None]

EmptyKnown == [known_encodings |-> << >>, known_student_ids |-> << >>]

NoLog == [idx |-> 0, row |-> NewLog]

(* An uploaded file of the enrollment form: absent from the request, or an  *)
(* image with the face encodings the extractor finds in it                 *)
Missing == [given |-> FALSE, faces |-> << >>]
NoFace == [given |-> TRUE, faces |-> << >>]
Face(e) == [given |-> TRUE, faces |-> << e >>]

NoUploads == << Missing, Missing, Missing >>

IdleTask == [pc |-> "idle", kind |-> "none", session |-> NoSession,
             known |-> EmptyKnown, recognized_students |-> {}, capOpen |-> FALSE,
             student_id |-> None, confidence |-> Null,
             session_log |-> NoLog, raised |-> None, result |-> "none",
             images |-> NoUploads, angle |-> 0, face_image |-> 0,
             success |-> TRUE, errors |-> {}]

NoMatchIn == [known |-> EmptyKnown, frame |-> << >>, called |-> FALSE]

NotLoaded == [course |-> None, known |-> EmptyKnown, called |-> FALSE]

(* The frames a video file still holds; the webcam, video_source=0, holds   *)
(* no count of frames                                                       *)
NoSource == 0

InitStore ==
    /\ students = [st \in StudentIds |->
                     [exists |-> TRUE, is_active |-> TRUE, course |-> CourseOf(st)]]
    /\ faceImages = EnrolledImages("s1", E_s1, E_side, E_side, 0)
                    \o EnrolledImages("s2", E_s2, E_side, E_side, 0)
                    \o EnrolledImages("s3", E_s3, E_side, E_side, 0)

Init ==
    /\ InitStore
    /\ sessions = << >>
    /\ sessionLogs = [s \in SessionIds |-> [st \in StudentIds |-> << >>]]
    /\ now = 0
    /\ task = [t \in Tasks |-> IdleTask]
    /\ matchIn = NoMatchIn
    /\ matchOut = NoMatch
    /\ loaded = NotLoaded
    /\ source = NoSource

----------------------------------------------------------------------------
(* Session management views *)

RECURSIVE CreateLogs(_, _, _)
CreateLogs(logs, s, todo) ==
    IF todo = {} THEN logs
    ELSE LET st == CHOOSE x \in todo : TRUE
         IN  CreateLogs(CreateLog(logs, s, st), s, todo \ {st})

(* create_session: the session row, then an absent log per active student  *)
(* of the course                                                           *)
CreateSession(course, w) ==
    /\ Len(sessions) < MaxSessions
    /\ LET id == Len(sessions) + 1
       IN  /\ sessions' = Append(sessions,
                  [course |-> course, start_time |-> w[1], end_time |-> w[2],
                   status |-> "active"])
           /\ sessionLogs' = CreateLogs(sessionLogs, id, ActiveStudentsIn(course))
    /\ UNCHANGED <<students, faceImages, now, task, matchIn, matchOut, loaded, source>>

(* initialize_session_logs(session) *)
InitializeSession(s) ==
    /\ s \in ExistingSessions
    /\ sessionLogs' = InitializeSessionLogs(sessionLogs, s)
    /\ UNCHANGED <<students, faceImages, sessions, now, task, matchIn, matchOut, loaded, source>>

(* Variant: end_session as a switch between active and completed *)
EndSessionToggle(s) ==
    /\ s \in ExistingSessions
    /\ sessions' = [sessions EXCEPT ![s].status =
                       IF @ = "active" THEN "completed" ELSE "active"]
    /\ UNCHANGED <<students, faceImages, sessionLogs, now, task, matchIn, matchOut, loaded, source>>

(* Variant: end_session that completes every session *)
EndSessionAll(s) ==
    /\ s \in ExistingSessions
    /\ sessions' = [i \in DOMAIN sessions |-> [sessions[i] EXCEPT !.status = "completed"]]
    /\ UNCHANGED <<students, faceImages, sessionLogs, now, task, matchIn, matchOut, loaded, source>>

(* end_session *)
EndSession(s) ==
    /\ s \in ExistingSessions
    /\ sessions' = [sessions EXCEPT ![s].status = "completed"]
    /\ UNCHANGED <<students, faceImages, sessionLogs, now, task, matchIn, matchOut, loaded, source>>

(* timezone.now() advances *)
Tick ==
    /\ now < MaxTime
    /\ now' = now + 1
    /\ UNCHANGED <<dbVars, task, matchIn, matchOut, loaded, source>>

SessionObject(s) ==
    [id |-> s, course |-> sessions[s].course, start_time |-> sessions[s].start_time,
     end_time |-> sessions[s].end_time, status |-> sessions[s].status]

Done(tk, result) ==
    [IdleTask EXCEPT !.pc = "done", !.kind = tk.kind, !.session = tk.session,
                     !.student_id = tk.student_id, !.confidence = tk.confidence,
                     !.raised = tk.raised, !.result = result, !.errors = tk.errors]

(* start_recognition: refuse a session that is not active, else hand the    *)
(* session object to a background thread                                    *)
StartRecognition(t, s) ==
    /\ task[t].pc = "idle"
    /\ s \in ExistingSessions
    /\ LET session == SessionObject(s)
       IN  task' = [task EXCEPT ![t] =
              IF ~IsActive(session, now)
              THEN Done([IdleTask EXCEPT !.kind = "start", !.session = session],
                        "SessionNotActive")
              ELSE [IdleTask EXCEPT !.pc = "load", !.kind = "stream",
                                    !.session = session]]
    /\ UNCHANGED <<dbVars, now, matchIn, matchOut, loaded, source>>

----------------------------------------------------------------------------
(* process_video_stream, the background thread *)

(* The known set the streaming thread loads *)
StreamKnownFaces(session) == LoadKnownFaces(None)

(* Variant: the capture is opened whatever was loaded *)
LoadKnownNoCheck(t) ==
    /\ task[t].pc = "load"
    /\ task' = [task EXCEPT ![t] =
          [@ EXCEPT !.pc = "loop", !.known = StreamKnownFaces(task[t].session),
                    !.capOpen = TRUE]]
    /\ UNCHANGED <<dbVars, now, matchIn, matchOut, loaded, source>>

(* Lines 196-206: load the known faces, give up when there are none, else   *)
(* open the capture                                                        *)
LoadKnown(t) ==
    /\ task[t].pc = "load"
    /\ LET known == StreamKnownFaces(task[t].session)
       IN  task' = [task EXCEPT ![t] =
              IF Len(known.known_encodings) = 0
              THEN Done(@, "no_known_faces")
              ELSE [@ EXCEPT !.pc = "loop", !.known = known, !.capOpen = TRUE]]
    /\ UNCHANGED <<dbVars, now, matchIn, matchOut, loaded, source>>

(* The loop condition: is_active() of the session object the thread holds *)
LoopCondition(tk, t) == IsActive(tk.session, t)

(* imshow, waitKey: 'q' leaves the loop through the finally block *)
AfterFrame(tk, quit) ==
    IF quit THEN Done(tk, "stopped")
    ELSE [tk EXCEPT !.pc = "loop", !.student_id = None, !.confidence = Null,
                    !.session_log = NoLog]

(* Variant: the loop without its set of recognized students *)
ReadFrameNoSeenSet(t, ret, frame, quit) ==
    /\ task[t].pc = "loop"
    /\ LET tk == [task[t] EXCEPT !.raised = None]
           r == RecognizeFaceFromFrame(frame, tk.known.known_encodings,
                                       tk.known.known_student_ids)
       IN  task' = [task EXCEPT ![t] =
              IF ~LoopCondition(tk, now) THEN Done(tk, "session_over")
              ELSE IF ~ret THEN Done(tk, "source_exhausted")
              ELSE IF r.student_id # None
                   THEN [tk EXCEPT !.pc = "get", !.student_id = r.student_id,
                                   !.confidence = r.confidence]
                   ELSE AfterFrame(tk, quit)]
    /\ UNCHANGED <<dbVars, now, matchIn, matchOut, loaded, source>>

(* Variant: a read that returns no frame is taken for a frame without a face *)
LoopPassIgnoreEnd(tk, t, ret, frame, quit) ==
    LET r == RecognizeFaceFromFrame(frame, tk.known.known_encodings,
                                    tk.known.known_student_ids)
    IN  IF ~LoopCondition(tk, t) THEN Done(tk, "session_over")
        ELSE IF ret /\ r.student_id # None /\ r.student_id \notin tk.recognized_students
             THEN [tk EXCEPT !.pc = "get", !.student_id = r.student_id,
                             !.confidence = r.confidence]
             ELSE AfterFrame(tk, ret /\ quit)

(* One pass of the while loop at wall-clock time t, up to the call of      *)
(* mark_attendance: where the thread is afterwards                         *)
LoopPass(tk, t, ret, frame, quit) ==
    LET r == RecognizeFaceFromFrame(frame, tk.known.known_encodings,
                                    tk.known.known_student_ids)
    IN  IF ~LoopCondition(tk, t) THEN Done(tk, "session_over")
        ELSE IF ~ret THEN Done(tk, "source_exhausted")
        ELSE IF r.student_id # None /\ r.student_id \notin tk.recognized_students
             THEN [tk EXCEPT !.pc = "get", !.student_id = r.student_id,
                             !.confidence = r.confidence]
             ELSE AfterFrame(tk, quit)

(* The pass with what cap.read() of the webcam returns *)
ReadFrame(t, ret, frame, quit) ==
    /\ task[t].pc = "loop"
    /\ task' = [task EXCEPT ![t] =
          LoopPass([task[t] EXCEPT !.raised = None], now, ret, frame, quit)]
    /\ UNCHANGED <<dbVars, now, matchIn, matchOut, loaded, source>>

(* The pass on a video file: cap.read() returns a frame while the file     *)
(* holds one, and the frame is consumed                                    *)
ReadFile(t, frame, quit) ==
    /\ task[t].pc = "loop"
    /\ LET tk == [task[t] EXCEPT !.raised = None]
           ret == source > 0
       IN  /\ task' = [task EXCEPT ![t] = LoopPass(tk, now, ret, frame, quit)]
           /\ source' = IF LoopCondition(tk, now) /\ ret THEN source - 1 ELSE source
    /\ UNCHANGED <<dbVars, now, matchIn, matchOut, loaded>>

----------------------------------------------------------------------------
(* recognize_face_api, the single-frame request *)

RecognizeFaceApi(t, s, readable, frame) ==
    /\ task[t].pc = "idle"
    /\ s \in ExistingSessions
    /\ LET session == SessionObject(s)
           known == LoadKnownFaces(session.course)
           r == RecognizeFaceFromFrame(frame, known.known_encodings,
                                       known.known_student_ids)
           tk == [IdleTask EXCEPT !.kind = "api", !.session = session]
       IN  task' = [task EXCEPT ![t] =
              IF Len(known.known_encodings) = 0 THEN Done(tk, "no_known_faces")
              ELSE IF ~readable THEN Done(tk, "could_not_read_image")
              ELSE IF r.student_id = None THEN Done(tk, "no_student")
              ELSE IF ~StudentExists(r.student_id) THEN Done(tk, "error")
              ELSE IF students[r.student_id].course # session.course
                   THEN Done(tk, "not_in_course")
                   ELSE [tk EXCEPT !.pc = "get", !.student_id = r.student_id,
                                   !.confidence = r.confidence]]
    /\ UNCHANGED <<dbVars, now, matchIn, matchOut, loaded, source>>

----------------------------------------------------------------------------
(* mark_attendance, one action per database round trip *)

(* What the caller does with mark_attendance's return value: a log, or    *)
(* None after the exception that mark_attendance caught                    *)
Returned(tk, raised, quit) ==
    IF tk.kind = "api"
    THEN Done([tk EXCEPT !.raised = raised],
              IF raised = None THEN "marked" ELSE "no_student")
    ELSE AfterFrame([tk EXCEPT !.raised = raised,
                               !.recognized_students =
                                   IF raised = None THEN @ \cup {tk.student_id} ELSE @],
                    quit)

(* Variant: no Student.objects.get before the get_or_create *)
MarkGetNoLookup(t, quit) ==
    /\ task[t].pc = "get"
    /\ LET tk == task[t]
           rows == sessionLogs[tk.session.id][tk.student_id]
       IN  task' = [task EXCEPT ![t] =
              IF Len(rows) = 0 THEN [tk EXCEPT !.pc = "create"]
              ELSE [tk EXCEPT !.pc = "save",
                              !.session_log = [idx |-> 1, row |-> rows[1]]]]
    /\ UNCHANGED <<dbVars, now, matchIn, matchOut, loaded, source>>

(* Variant: a plain get of the log, which fails when there is none *)
MarkGetRequiresLog(t, quit) ==
    /\ task[t].pc = "get"
    /\ LET tk == task[t]
           rows == sessionLogs[tk.session.id][tk.student_id]
       IN  task' = [task EXCEPT ![t] =
              IF ~StudentExists(tk.student_id)
              THEN Returned(tk, "Student.DoesNotExist", quit)
              ELSE IF Len(rows) = 1
                   THEN [tk EXCEPT !.pc = "save",
                                   !.session_log = [idx |-> 1, row |-> rows[1]]]
                   ELSE Returned(tk, "SessionLog.DoesNotExist", quit)]
    /\ UNCHANGED <<dbVars, now, matchIn, matchOut, loaded, source>>

(* Student.objects.get, then the get of get_or_create *)
MarkGet(t, quit) ==
    /\ task[t].pc = "get"
    /\ LET tk == task[t]
           rows == sessionLogs[tk.session.id][tk.student_id]
       IN  task' = [task EXCEPT ![t] =
              IF ~StudentExists(tk.student_id)
              THEN Returned(tk, "Student.DoesNotExist", quit)
              ELSE IF Len(rows) = 0 THEN [tk EXCEPT !.pc = "create"]
              ELSE IF Len(rows) = 1
                   THEN [tk EXCEPT !.pc = "save",
                                   !.session_log = [idx |-> 1, row |-> rows[1]]]
                   ELSE Returned(tk, "MultipleObjectsReturned", quit)]
    /\ UNCHANGED <<dbVars, now, matchIn, matchOut, loaded, source>>

(* Variant: the IntegrityError of the insert is not handled by a second get *)
CreateOrGetNoRetry(logs, s, st) ==
    IF ~UniqueViolation(logs, s, st)
    THEN [logs |-> CreateLog(logs, s, st), idx |-> Len(logs[s][st]) + 1,
          raised |-> None]
    ELSE [logs |-> logs, idx |-> 0, raised |-> "IntegrityError"]

(* The create branch of get_or_create: insert; when the unique constraint  *)
(* refuses the insert (IntegrityError), get the row the other call made     *)
CreateOrGet(logs, s, st) ==
    LET rows == logs[s][st]
    IN  IF ~UniqueViolation(logs, s, st)
        THEN [logs |-> CreateLog(logs, s, st), idx |-> Len(rows) + 1, raised |-> None]
        ELSE IF Len(rows) = 1
             THEN [logs |-> logs, idx |-> 1, raised |-> None]
             ELSE [logs |-> logs, idx |-> 0, raised |-> "MultipleObjectsReturned"]

MarkCreate(t, quit) ==
    /\ task[t].pc = "create"
    /\ LET tk == task[t]
           s == tk.session.id
           st == tk.student_id
           r == IF StudentExists(st) THEN CreateOrGet(sessionLogs, s, st)
                ELSE [logs |-> sessionLogs, idx |-> 0, raised |-> "IntegrityError"]
       IN  /\ sessionLogs' = r.logs
           /\ task' = [task EXCEPT ![t] =
                 IF r.raised # None THEN Returned(tk, r.raised, quit)
                 ELSE [tk EXCEPT !.pc = "save",
                          !.session_log = [idx |-> r.idx, row |-> r.logs[s][st][r.idx]]]]
    /\ UNCHANGED <<students, faceImages, sessions, now, matchIn, matchOut, loaded, source>>

(* Model.save() of a log: an UPDATE of the row, or, when the row is gone    *)
(* (idx 0), an INSERT, which the foreign key to the student and the unique  *)
(* constraint can refuse                                                    *)
SaveLog(logs, s, st, idx, saved) ==
    IF idx # 0
    THEN [logs |-> [logs EXCEPT ![s][st][idx] = saved], raised |-> None]
    ELSE IF ~StudentExists(st) \/ UniqueViolation(logs, s, st)
         THEN [logs |-> logs, raised |-> "IntegrityError"]
         ELSE [logs |-> [logs EXCEPT ![s][st] = Append(@, saved)], raised |-> None]

(* recognized_image.save(save=False), mark_present(confidence), save() *)
MarkSave(t, quit) ==
    /\ task[t].pc = "save"
    /\ LET tk == task[t]
           s == tk.session.id
           st == tk.student_id
           log == [tk.session_log.row EXCEPT !.recognized_image = "jpg"]
           saved == MarkPresent(log, tk.confidence, None, now)
           r == SaveLog(sessionLogs, s, st, tk.session_log.idx, saved)
       IN  /\ sessionLogs' = r.logs
           /\ task' = [task EXCEPT ![t] = Returned(tk, r.raised, quit)]
    /\ UNCHANGED <<students, faceImages, sessions, now, matchIn, matchOut, loaded, source>>

(* The response is delivered, or the thread has ended *)
Finish(t) ==
    /\ task[t].pc = "done"
    /\ task' = [task EXCEPT ![t] = IdleTask]
    /\ UNCHANGED <<dbVars, now, matchIn, matchOut, loaded, source>>

----------------------------------------------------------------------------
(* enroll_student and save_student_face_images, one action per database    *)
(* write: the view runs in autocommit, so other requests see the rows in   *)
(* between                                                                 *)

(* The place of a student id that is not in the table *)
NoStudent(student_id) ==
    [exists |-> FALSE, is_active |-> TRUE, course |-> CourseOf(student_id)]

NewStudent(student_id) ==
    [exists |-> TRUE, is_active |-> TRUE, course |-> CourseOf(student_id)]

RemoveAt(rows, i) == SubSeq(rows, 1, i - 1) \o SubSeq(rows, i + 1, Len(rows))

(* student.delete(): the row and, by on_delete=CASCADE, the student's face *)
(* images and session logs                                                 *)
StudentsAfterDelete(student_id) ==
    [students EXCEPT ![student_id] = NoStudent(student_id)]

(* Variant: a foreign key that does not cascade *)
FaceImagesKept(student_id) == faceImages

FaceImagesAfterDelete(student_id) ==
    SelectSeq(faceImages, LAMBDA r : r.student # student_id)

LogsAfterDelete(student_id) ==
    [s \in SessionIds |-> [st \in StudentIds |->
        IF st = student_id THEN << >> ELSE sessionLogs[s][st]]]

(* A mark_attendance call that holds a log of the deleted student holds a  *)
(* row that is gone                                                        *)
TasksAfterDelete(tasks, student_id) ==
    [t \in Tasks |->
        IF tasks[t].pc = "save" /\ tasks[t].student_id = student_id
        THEN [tasks[t] EXCEPT !.session_log.idx = 0]
        ELSE tasks[t]]

(* Lines 356-388: an id that is taken is refused, else the student row is  *)
(* created                                                                 *)
EnrollStudent(t, student_id, uploads) ==
    /\ task[t].pc = "idle"
    /\ LET tk == [IdleTask EXCEPT !.kind = "enroll", !.student_id = student_id]
       IN  IF StudentExists(student_id)
           THEN /\ task' = [task EXCEPT ![t] = Done(tk, "student_exists")]
                /\ UNCHANGED students
           ELSE /\ students' = [students EXCEPT ![student_id] = NewStudent(student_id)]
                /\ task' = [task EXCEPT ![t] =
                      [tk EXCEPT !.pc = "enroll_images", !.images = uploads]]
    /\ UNCHANGED <<faceImages, sessions, sessionLogs, now, matchIn, matchOut, loaded, source>>

(* Lines 393-411: all three files are required, else the student is deleted *)
EnrollCheckImages(t) ==
    /\ task[t].pc = "enroll_images"
    /\ LET tk == task[t]
       IN  IF \E a \in 1..Len(Angles) : ~tk.images[a].given
           THEN /\ students' = StudentsAfterDelete(tk.student_id)
                /\ faceImages' = FaceImagesAfterDelete(tk.student_id)
                /\ sessionLogs' = LogsAfterDelete(tk.student_id)
                /\ task' = TasksAfterDelete(
                      [task EXCEPT ![t] = Done(tk, "missing_images")], tk.student_id)
           ELSE /\ task' = [task EXCEPT ![t] =
                      [tk EXCEPT !.pc = "enroll_create", !.angle = 1]]
                /\ UNCHANGED <<students, faceImages, sessionLogs>>
    /\ UNCHANGED <<sessions, now, matchIn, matchOut, loaded, source>>

(* save_student_face_images, FaceImage.objects.create: the row of the      *)
(* angle, without an encoding yet                                          *)
EnrollCreateImage(t) ==
    /\ task[t].pc = "enroll_create"
    /\ LET tk == task[t]
       IN  /\ faceImages' = Append(faceImages,
                 [student |-> tk.student_id, angle |-> Angles[tk.angle],
                  face_encoding |-> << >>, captured_at |-> now, is_active |-> TRUE])
           /\ task' = [task EXCEPT ![t] =
                 [tk EXCEPT !.pc = "enroll_encode", !.face_image = Len(faceImages) + 1]]
    /\ UNCHANGED <<students, sessions, sessionLogs, now, matchIn, matchOut, loaded, source>>

(* Variant: the row of an image without a face is left in the table *)
StoreEncodingKeepRow(rows, i, faces) ==
    IF Len(faces) > 0 THEN [rows EXCEPT ![i].face_encoding = faces[1]] ELSE rows

(* encode_face and lines 57-65: the first encoding is stored in the row,   *)
(* or the row is deleted when the image shows no face                      *)
StoreEncoding(rows, i, faces) ==
    IF Len(faces) > 0 THEN [rows EXCEPT ![i].face_encoding = faces[1]]
    ELSE RemoveAt(rows, i)

(* The rest of one pass of the loop over the angles *)
EnrollEncode(t) ==
    /\ task[t].pc = "enroll_encode"
    /\ LET tk == task[t]
           faces == tk.images[tk.angle].faces
           found == Len(faces) > 0
           after == [tk EXCEPT !.face_image = 0,
                               !.success = @ /\ found,
                               !.errors = IF found THEN @ ELSE @ \cup {Angles[tk.angle]}]
       IN  /\ faceImages' = StoreEncoding(faceImages, tk.face_image, faces)
           /\ task' = [task EXCEPT ![t] =
                 IF tk.angle < Len(Angles)
                 THEN [after EXCEPT !.pc = "enroll_create", !.angle = @ + 1]
                 ELSE [after EXCEPT !.pc = "enroll_result"]]
    /\ UNCHANGED <<students, sessions, sessionLogs, now, matchIn, matchOut, loaded, source>>

(* Lines 420-431: success, or the student is deleted again *)
EnrollResult(t) ==
    /\ task[t].pc = "enroll_result"
    /\ LET tk == task[t]
       IN  IF tk.success
           THEN /\ task' = [task EXCEPT ![t] = Done(tk, "enrolled")]
                /\ UNCHANGED <<students, faceImages, sessionLogs>>
           ELSE /\ students' = StudentsAfterDelete(tk.student_id)
                /\ faceImages' = FaceImagesAfterDelete(tk.student_id)
                /\ sessionLogs' = LogsAfterDelete(tk.student_id)
                /\ task' = TasksAfterDelete(
                      [task EXCEPT ![t] = Done(tk, "face_errors")], tk.student_id)
    /\ UNCHANGED <<sessions, now, matchIn, matchOut, loaded, source>>

----------------------------------------------------------------------------
(* Every step a recognition task can take, the camera and the uploads      *)
(* showing the given frames                                                *)
RecognitionStep(t, frames) ==
    \/ \E s \in SessionIds : StartRecognition(t, s)
    \/ LoadKnown(t)
    \/ \E ret \in BOOLEAN, frame \in frames, quit \in BOOLEAN :
          ReadFrame(t, ret, frame, quit)
    \/ \E s \in SessionIds, readable \in BOOLEAN, frame \in frames :
          RecognizeFaceApi(t, s, readable, frame)
    \/ \E quit \in BOOLEAN : MarkGet(t, quit)
    \/ \E quit \in BOOLEAN : MarkCreate(t, quit)
    \/ \E quit \in BOOLEAN : MarkSave(t, quit)
    \/ Finish(t)

TaskStep(t) == RecognitionStep(t, Frames)

(* Every step of an enrollment request *)
EnrollStep(t, ids, uploads) ==
    \/ \E student_id \in ids, u \in uploads : EnrollStudent(t, student_id, u)
    \/ EnrollCheckImages(t)
    \/ EnrollCreateImage(t)
    \/ EnrollEncode(t)
    \/ EnrollResult(t)
    \/ Finish(t)

Next ==
    \/ \E c \in SessionCourses, w \in Windows : CreateSession(c, w)
    \/ \E s \in SessionIds : InitializeSession(s)
    \/ \E s \in SessionIds : EndSession(s)
    \/ Tick
    \/ \E t \in SingleTask : TaskStep(t)

Spec == Init /\ [][Next]_vars

(* Two tasks on one session: the state create_session leaves behind, then  *)
(* everything but the creation of further sessions                         *)
InitRace ==
    /\ InitStore
    /\ sessions = << [course |-> "COET", start_time |-> 0, end_time |-> 0,
                      status |-> "active"] >>
    /\ sessionLogs = CreateLogs([s \in SessionIds |-> [st \in StudentIds |-> << >>]],
                                1, ActiveStudentsIn("COET"))
    /\ now = 0
    /\ task = [t \in Tasks |-> IdleTask]
    /\ matchIn = NoMatchIn
    /\ matchOut = NoMatch
    /\ loaded = NotLoaded
    /\ source = NoSource

NextRace ==
    \/ \E s \in SessionIds : InitializeSession(s)
    \/ \E s \in SessionIds : EndSession(s)
    \/ Tick
    \/ \E t \in Tasks : TaskStep(t)

SpecRace == InitRace /\ [][NextRace]_vars

----------------------------------------------------------------------------
(* Enrollment next to recognition: s2 is enrolled in COET, s1 asks to be,   *)
(* sessions of either course are created, and one recognition task runs.    *)

EnrollIds == {"s1", "s2"}

(* The three files of an enrollment form: all showing a face; the left one *)
(* without a face; the right one missing                                   *)
Uploads == { << Face(E_s1), Face(E_side), Face(E_side) >>,
             << Face(E_s1), NoFace, Face(E_side) >>,
             << Face(E_s1), Face(E_side), Missing >> }

(* No face, s1, and a face at 0.6 from s1 and 0.4 from s2 *)
EnrollFrames == { << >>, <<E_s1>>, <<(<<6, 0>>)>> }

Recognizer == "t1"
Enroller == "t2"

InitEnroll ==
    /\ students = [st \in StudentIds |->
                     IF st = "s2" THEN NewStudent(st) ELSE NoStudent(st)]
    /\ faceImages = EnrolledImages("s2", E_s2, E_side, E_side, 0)
    /\ sessions = << >>
    /\ sessionLogs = [s \in SessionIds |-> [st \in StudentIds |-> << >>]]
    /\ now = 0
    /\ task = [t \in Tasks |-> IdleTask]
    /\ matchIn = NoMatchIn
    /\ matchOut = NoMatch
    /\ loaded = NotLoaded
    /\ source = NoSource

NextEnroll ==
    \/ \E c \in Courses, w \in Windows : CreateSession(c, w)
    \/ RecognitionStep(Recognizer, EnrollFrames)
    \/ EnrollStep(Enroller, EnrollIds, Uploads)

SpecEnroll == InitEnroll /\ [][NextEnroll]_vars

----------------------------------------------------------------------------
(* The matcher on its own: every known set of up to MaxKnown encodings and  *)
(* every frame below, one call of recognize_face_from_frame each            *)

MatchEncodings == {<<0, 0>>, <<6, 0>>, <<0, 6>>, <<3, 3>>, <<100, 100>>}

MatchFrames == { << >>, <<(<<0, 0>>)>>, <<(<<50, 50>>)>>, <<(<<3, 0>>)>>,
                 <<(<<7, 0>>)>>, <<(<<5, 4>>)>>, <<(<<0, 6>>), (<<0, 0>>)>> }

KnownSets ==
    UNION {[known_encodings : [1..n -> MatchEncodings],
            known_student_ids : [1..n -> StudentIds]] : n \in 0..MaxKnown}

InitMatch ==
    /\ InitStore
    /\ sessions = << >>
    /\ sessionLogs = [s \in SessionIds |-> [st \in StudentIds |-> << >>]]
    /\ now = 0
    /\ task = [t \in Tasks |-> IdleTask]
    /\ matchIn \in [known : KnownSets, frame : MatchFrames, called : {FALSE}]
    /\ matchOut = NoMatch
    /\ loaded = NotLoaded
    /\ source = NoSource

MatchCall ==
    /\ ~matchIn.called
    /\ matchIn' = [matchIn EXCEPT !.called = TRUE]
    /\ matchOut' = RecognizeFaceFromFrame(matchIn.frame, matchIn.known.known_encodings,
                                          matchIn.known.known_student_ids)
    /\ UNCHANGED <<dbVars, now, task, loaded, source>>

NextMatch == MatchCall

SpecMatch == InitMatch /\ [][NextMatch]_vars

----------------------------------------------------------------------------
(* load_known_faces on its own, over the contents the two tables can have:  *)
(* the program filters on is_active, a column it never writes itself.       *)

StoreStudents ==
    { [st \in StudentIds |->
          [exists |-> TRUE, is_active |-> a[st], course |-> CourseOf(st)]] :
      a \in [StudentIds -> BOOLEAN] }

(* An older and a newer front image of s1, a left image of s1, a front     *)
(* image of s2, and a front image of s3 with or without its encoding       *)
StoreFaceImages ==
    { << [student |-> "s1", angle |-> "front", face_encoding |-> <<1, 0>>,
          captured_at |-> 0, is_active |-> a1],
         [student |-> "s1", angle |-> "left", face_encoding |-> E_side,
          captured_at |-> 0, is_active |-> TRUE],
         [student |-> "s2", angle |-> "front", face_encoding |-> E_s2,
          captured_at |-> 0, is_active |-> a2],
         [student |-> "s3", angle |-> "front", face_encoding |-> e3,
          captured_at |-> 0, is_active |-> TRUE],
         [student |-> "s1", angle |-> "front", face_encoding |-> E_s1,
          captured_at |-> 1, is_active |-> a5] >> :
      a1 \in BOOLEAN, a2 \in BOOLEAN, a5 \in BOOLEAN, e3 \in {E_s3, << >>} }

InitLoad ==
    /\ students \in StoreStudents
    /\ faceImages \in StoreFaceImages
    /\ sessions = << >>
    /\ sessionLogs = [s \in SessionIds |-> [st \in StudentIds |-> << >>]]
    /\ now = 0
    /\ task = [t \in Tasks |-> IdleTask]
    /\ matchIn = NoMatchIn
    /\ matchOut = NoMatch
    /\ loaded = NotLoaded
    /\ source = NoSource

(* One call of load_known_faces(course) *)
LoadKnownFacesCall(course) ==
    /\ ~loaded.called
    /\ loaded' = [course |-> course, known |-> LoadKnownFaces(course), called |-> TRUE]
    /\ UNCHANGED <<dbVars, now, task, matchIn, matchOut, source>>

NextLoad == \E course \in Courses \cup {None} : LoadKnownFacesCall(course)

SpecLoad == InitLoad /\ [][NextLoad]_vars

----------------------------------------------------------------------------
(* One recognition task on a video file of MaxFrames frames, or answering   *)
(* one single-frame request, over a full store, an empty one and one with  *)
(* a single student, while sessions are created and ended, the clock       *)
(* advances and a student is deactivated.                                  *)

StreamTask == "t1"

(* A window that closes at the first tick and one that stays open *)
StreamWindows == {<<0, 0>>, <<0, MaxTime>>}

(* No face, s1, a stranger at distance 1.0 from s1, and s3 *)
StreamFrames == { << >>, <<E_s1>>, <<(<<0, -10>>)>>, <<E_s3>>  }

(* The student whose is_active flag is switched off *)
DeactivateIds == {"s1"}

(* Student.is_active set to False: no handler writes the column, it is     *)
(* changed in the table (the admin site) while the handlers read it         *)
Deactivate(student_id) ==
    /\ StudentExists(student_id)
    /\ students[student_id].is_active
    /\ students' = [students EXCEPT ![student_id].is_active = FALSE]
    /\ UNCHANGED <<faceImages, sessions, sessionLogs, now, task, matchIn, matchOut,
                   loaded, source>>

(* The store before any enrollment *)
EmptyStore ==
    /\ students = [st \in StudentIds |-> NoStudent(st)]
    /\ faceImages = << >>

(* The store when only s3, of course BIT, has enrolled *)
BitStore ==
    /\ students = [st \in StudentIds |->
                     IF st = "s3" THEN NewStudent(st) ELSE NoStudent(st)]
    /\ faceImages = EnrolledImages("s3", E_s3, E_side, E_side, 0)

InitStream ==
    /\ (InitStore \/ EmptyStore \/ BitStore)
    /\ sessions = << >>
    /\ sessionLogs = [s \in SessionIds |-> [st \in StudentIds |-> << >>]]
    /\ now = 0
    /\ task = [t \in Tasks |-> IdleTask]
    /\ matchIn = NoMatchIn
    /\ matchOut = NoMatch
    /\ loaded = NotLoaded
    /\ source = MaxFrames

(* The steps of the background thread, which the scheduler runs *)
ThreadStep(t) ==
    \/ LoadKnown(t)
    \/ \E frame \in StreamFrames, quit \in BOOLEAN : ReadFile(t, frame, quit)
    \/ \E quit \in BOOLEAN : MarkGet(t, quit)
    \/ \E quit \in BOOLEAN : MarkCreate(t, quit)
    \/ \E quit \in BOOLEAN : MarkSave(t, quit)

NextStream ==
    \/ \E c \in SessionCourses, w \in StreamWindows : CreateSession(c, w)
    \/ \E s \in SessionIds : EndSession(s)
    \/ Tick
    \/ \E st \in DeactivateIds : Deactivate(st)
    \/ \E s \in SessionIds : StartRecognition(StreamTask, s)
    \/ \E s \in SessionIds, readable \in BOOLEAN, frame \in StreamFrames :
          RecognizeFaceApi(StreamTask, s, readable, frame)
    \/ ThreadStep(StreamTask)

SpecStream == InitStream /\ [][NextStream]_vars

(* The thread is scheduled again and again *)
SpecStreamFair == SpecStream /\ WF_vars(ThreadStep(StreamTask))

----------------------------------------------------------------------------
(* Two sessions side by side, as two create_session requests leave them:   *)
(* the first of course COET, the second of either course.  Each has its    *)
(* own recognition task; both sessions are initialized and ended.          *)

PairIds == {1, 2}

PairFrames == { <<E_s1>>, <<E_s3>> }

(* The task that works on a session of the pair *)
TaskOf(s) == IF s = 1 THEN "t1" ELSE "t2"

PairSession(course) ==
    [course |-> course, start_time |-> 0, end_time |-> MaxTime, status |-> "active"]

InitPair ==
    /\ InitStore
    /\ \E course \in Courses :
          /\ sessions = << PairSession("COET"), PairSession(course) >>
          /\ sessionLogs =
                CreateLogs(CreateLogs([s \in PairIds |-> [st \in StudentIds |-> << >>]],
                                      1, ActiveStudentsIn("COET")),
                           2, ActiveStudentsIn(course))
    /\ now = 0
    /\ task = [t \in Tasks |-> IdleTask]
    /\ matchIn = NoMatchIn
    /\ matchOut = NoMatch
    /\ loaded = NotLoaded
    /\ source = NoSource

(* The steps of the task of session s; the stop key is left alone *)
PairStep(s) ==
    \/ StartRecognition(TaskOf(s), s)
    \/ LoadKnown(TaskOf(s))
    \/ \E ret \in BOOLEAN, frame \in PairFrames : ReadFrame(TaskOf(s), ret, frame, FALSE)
    \/ \E frame \in PairFrames : RecognizeFaceApi(TaskOf(s), s, TRUE, frame)
    \/ MarkGet(TaskOf(s), FALSE)
    \/ MarkCreate(TaskOf(s), FALSE)
    \/ MarkSave(TaskOf(s), FALSE)
    \/ Finish(TaskOf(s))

NextPair ==
    \/ \E s \in PairIds : InitializeSession(s)
    \/ \E s \in PairIds : EndSession(s)
    \/ \E s \in PairIds : PairStep(s)

SpecPair == InitPair /\ [][NextPair]_vars

----------------------------------------------------------------------------
(* Properties *)

Rows(s, st) == sessionLogs[s][st]

InMark(t) == task[t].pc \in {"get", "create", "save"}

Quiet == \A t \in Tasks : ~InMark(t)

(* A mark_attendance call of task t for (s, st) has returned a log *)
Completed(t, s, st) ==
    /\ task[t].session.id = s
    /\ \/ /\ task[t].kind = "api"
          /\ task[t].pc = "done"
          /\ task[t].result = "marked"
          /\ task[t].student_id = st
       \/ /\ task[t].kind = "stream"
          /\ st \in task[t].recognized_students

(* C1: in every reachable state there is at most one attendance record for *)
(* each (session, identity) pair.                                          *)
OneLogPerPair ==
    \A s \in SessionIds, st \in StudentIds : Len(Rows(s, st)) <= 1

(* A session that was created, initialized and marked: s1 present, the     *)
(* other cohort member and the outsider absent, nothing in flight.         *)
OneLogPerPairWitness ==
    \E s \in ExistingSessions :
        /\ Quiet
        /\ sessions[s].course = "COET"
        /\ \A st \in StudentIds : Len(Rows(s, st)) = 1
        /\ Rows(s, "s1")[1].status = "present"
        /\ Rows(s, "s2")[1].status = "absent"
        /\ Rows(s, "s3")[1].status = "absent"
        /\ \E t \in Tasks : Completed(t, s, "s1")

(* C2: a record that is present stays present in every step: nothing       *)
(* returns it to absent or removes it.                                     *)
PresentIsTerminal ==
    [][\A s \in SessionIds, st \in StudentIds :
         \A i \in 1..Len(sessionLogs[s][st]) :
            sessionLogs[s][st][i].status = "present"
            => /\ i <= Len(sessionLogs'[s][st])
               /\ sessionLogs'[s][st][i].status = "present"]_vars

(* A present record that has lived through initialize, a later recognition *)
(* request and the end of its session.                                     *)
PresentIsTerminalWitness ==
    \E s \in ExistingSessions :
        /\ sessions[s].status = "completed"
        /\ Len(Rows(s, "s1")) = 1
        /\ Rows(s, "s1")[1].status = "present"
        /\ Rows(s, "s1")[1].recognized_at = 0
        /\ now = MaxTime
        /\ \A st \in ActiveStudents : Len(Rows(s, st)) = 1
        /\ \E t \in Tasks : task[t].kind = "api" /\ task[t].pc = "done"
                            /\ task[t].session.status = "completed"

(* C3: a record carries a recognition timestamp exactly when it is present *)
TimestampIffPresent ==
    \A s \in SessionIds, st \in StudentIds :
        \A i \in 1..Len(Rows(s, st)) :
            (Rows(s, st)[i].recognized_at # Null) <=> (Rows(s, st)[i].status = "present")

(* One session holding a present record stamped at time 1 and an absent one *)
TimestampIffPresentWitness ==
    \E s \in ExistingSessions, p \in StudentIds, a \in StudentIds :
        /\ Len(Rows(s, p)) = 1 /\ Len(Rows(s, a)) = 1
        /\ Rows(s, p)[1].status = "present" /\ Rows(s, p)[1].recognized_at = 1
        /\ Rows(s, a)[1].status = "absent" /\ Rows(s, a)[1].recognized_at = Null

AllInitialized(s) == \A st \in ActiveStudents : Len(Rows(s, st)) >= 1

(* C4: initialize leaves exactly one record per active identity, applying  *)
(* it again changes nothing, and on a session that already has a record    *)
(* for every active identity it changes nothing at all.                    *)
InitializeIdempotent ==
    \A s \in ExistingSessions :
        LET once == InitializeSessionLogs(sessionLogs, s)
        IN  /\ \A st \in ActiveStudents : Len(once[s][st]) = 1
            /\ InitializeSessionLogs(once, s) = once
            /\ AllInitialized(s) => once = sessionLogs

(* An initialized session (the outsider s3 has an absent record) in which  *)
(* s1 has since been marked present                                        *)
InitializeIdempotentWitness ==
    \E s \in ExistingSessions :
        /\ Quiet
        /\ AllInitialized(s)
        /\ sessions[s].course = "COET"
        /\ Rows(s, "s3")[1].status = "absent"
        /\ Rows(s, "s1")[1].status = "present"
        /\ Rows(s, "s1")[1].confidence_score = 700

(* C5: the save of every mark_attendance call leaves the record present    *)
(* with the confidence of this call and the time of this call.             *)
LastWriteWins ==
    [][\A t \in Tasks :
         (task[t].pc = "save" /\ task'[t].pc # "save")
         => LET row == sessionLogs'[task[t].session.id][task[t].student_id]
                                  [task[t].session_log.idx]
            IN  /\ row.status = "present"
                /\ row.confidence_score = task[t].confidence
                /\ row.recognized_at = now]_vars

(* Two calls for the same pair have returned; the record holds the later   *)
(* one's confidence 0.7 and time 1.                                        *)
LastWriteWinsWitness ==
    \E t1 \in Tasks, t2 \in Tasks, s \in ExistingSessions :
        /\ t1 # t2
        /\ Completed(t1, s, "s1")
        /\ task[t1].kind = "stream"
        /\ Completed(t2, s, "s1")
        /\ task[t2].kind = "api"
        /\ task[t2].confidence = 700
        /\ Rows(s, "s1")[1].status = "present"
        /\ Rows(s, "s1")[1].confidence_score = 700
        /\ Rows(s, "s1")[1].recognized_at = 1

(* C6: whatever the interleaving of two mark_attendance calls for the same *)
(* pair, no call meets a uniqueness error, a call that is past its         *)
(* get_or_create finds exactly one record for the pair, and once both      *)
(* calls have returned that one record is present.                         *)
ConcurrentMarksOneRecord ==
    /\ \A t \in Tasks : task[t].raised \notin {"IntegrityError", "MultipleObjectsReturned"}
    /\ \A t \in Tasks :
          task[t].pc = "save" => Len(Rows(task[t].session.id, task[t].student_id)) = 1
    /\ \A t1 \in Tasks, t2 \in Tasks, s \in SessionIds, st \in StudentIds :
          (t1 # t2 /\ Completed(t1, s, st) /\ Completed(t2, s, st))
          => /\ Len(Rows(s, st)) = 1
             /\ Rows(s, st)[1].status = "present"

(* Two streaming runs of one session have both marked s3, for whom the     *)
(* session had no record before.                                           *)
ConcurrentMarksWitness ==
    \E t1 \in Tasks, t2 \in Tasks, s \in ExistingSessions :
        /\ t1 # t2
        /\ sessions[s].course = "COET"
        /\ task[t1].kind = "stream" /\ task[t2].kind = "stream"
        /\ Completed(t1, s, "s3")
        /\ Completed(t2, s, "s3")
        /\ Len(Rows(s, "s3")) = 1
        /\ Rows(s, "s3")[1].status = "present"

(* C7: a recognition request that finds the session's status not active    *)
(* writes no attendance record.                                            *)
RejectsInactiveSession ==
    [][\A t \in Tasks :
         (InMark(t) /\ task'[t] # task[t] /\ sessionLogs' # sessionLogs)
         => task[t].session.status = "active"]_vars

(* C8: an iteration of the streaming loop that begins after the session    *)
(* left the active status leaves the loop and releases the capture.        *)
LoopObservesEnd ==
    [][\A t \in Tasks :
         (/\ task[t].kind = "stream"
          /\ task[t].pc = "loop"
          /\ task'[t] # task[t]
          /\ sessions[task[t].session.id].status # "active")
         => (task'[t].pc = "done" /\ ~task'[t].capOpen)]_vars

(* C9: a streaming run marks only identities of its session's cohort.      *)
StreamMarksOnlyCohort ==
    \A t \in Tasks :
        task[t].kind = "stream"
        => \A st \in task[t].recognized_students :
              students[st].course = task[t].session.course

MinDistance(known_encodings, q) ==
    CHOOSE m \in {Norm(known_encodings[i], q) : i \in 1..Len(known_encodings)} :
        \A j \in 1..Len(known_encodings) : m <= Norm(known_encodings[j], q)

(* C10: on a non-empty known set, match returns an identity at minimal     *)
(* distance with confidence 1 - distance exactly when that distance is     *)
(* <= the tolerance, and no-match otherwise.                               *)
MatchContract ==
    (matchIn.called /\ Len(matchIn.frame) > 0 /\ Len(matchIn.known.known_encodings) > 0)
    => LET known == matchIn.known
           m == MinDistance(known.known_encodings, matchIn.frame[1])
       IN  IF m <= Tolerance
           THEN /\ matchOut.confidence = One - m
                /\ \E i \in 1..Len(known.known_encodings) :
                      /\ Norm(known.known_encodings[i], matchIn.frame[1]) = m
                      /\ matchOut.student_id = known.known_student_ids[i]
           ELSE matchOut = NoMatch

(* The example: known {s1: [0,0], s2: [10,10]}, query [0,0] gives (s1, 1.0) *)
MatchContractWitness ==
    /\ matchIn.called
    /\ matchIn.known = [known_encodings |-> << <<0, 0>>, <<100, 100>> >>,
                        known_student_ids |-> << "s1", "s2" >>]
    /\ matchIn.frame = << <<0, 0>> >>
    /\ matchOut = [student_id |-> "s1", confidence |-> 1000]

(* The session's records that are in state present *)
PresentRecords(s) ==
    {p \in StudentIds \X (1..2) :
        p[2] <= Len(Rows(s, p[1])) /\ Rows(s, p[1])[p[2]].status = "present"}

(* C11: in every reachable state the statistics of a session are: total =  *)
(* the active identities of the session's cohort (whatever records exist), *)
(* present_count = the session's records in state present, absent_count =  *)
(* total - present_count, percentage = 0 when total = 0 and otherwise      *)
(* present_count / total * 100.                                            *)
StatisticsContract ==
    \A s \in ExistingSessions :
        LET stats == GetAttendanceStatistics(s)
            total == Cardinality({st \in StudentIds :
                        /\ students[st].exists
                        /\ students[st].is_active
                        /\ students[st].course = sessions[s].course})
            present == Cardinality(PresentRecords(s))
        IN  /\ stats.total_students = total
            /\ stats.present_count = present
            /\ stats.absent_count = total - present
            /\ total = 0 => stats.attendance_percentage = 0
            /\ total > 0 => stats.attendance_percentage * total = present * 100 * One

(* Two active identities in the cohort, one record in the session, and     *)
(* that one present: total 2, present 1, absent 1, 50 percent.             *)
StatisticsContractWitness ==
    \E s \in ExistingSessions :
        /\ sessions[s].course = "COET"
        /\ StudentExists("s1")
        /\ Len(Rows(s, "s1")) = 0
        /\ Len(Rows(s, "s2")) = 1
        /\ Rows(s, "s2")[1].status = "present"
        /\ GetAttendanceStatistics(s) =
              [total_students |-> 2, present_count |-> 1, absent_count |-> 1,
               attendance_percentage |-> 50 * One]

(* FaceImage rows of one (identity, angle), and the active ones among them *)
CountOf(rows, st, a) ==
    Len(SelectSeq(rows, LAMBDA r : r.student = st /\ r.angle = a))

ActiveCountOf(rows, st, a) ==
    Len(SelectSeq(rows, LAMBDA r : r.student = st /\ r.angle = a /\ r.is_active))

AngleSet == {Angles[i] : i \in 1..Len(Angles)}

(* C12: an enrollment request for an identity that is enrolled already is  *)
(* carried out as a re-enrollment, not refused; in every step the number   *)
(* of records of each (identity, angle) does not decrease, and at most one *)
(* of them is active.                                                      *)
ReEnrollKeepsHistory ==
    [][\A st \in StudentIds, a \in AngleSet :
         /\ CountOf(faceImages', st, a) >= CountOf(faceImages, st, a)
         /\ ActiveCountOf(faceImages', st, a) <= 1
         /\ \A t \in Tasks :
               (/\ task[t].pc = "idle"
                /\ task'[t].kind = "enroll"
                /\ task'[t].student_id = st
                /\ ActiveCountOf(faceImages, st, a) = 1)
               => task'[t].result # "student_exists"]_vars

(* C13: an image without a face makes the angle fail with its error, and   *)
(* the records of the (identity, angle) are afterwards what they were      *)
(* before the angle was tried; a record without an embedding exists only   *)
(* between the creation of a row and the look at its image.                *)
NoFaceNoRecord ==
    /\ [](\A i \in 1..Len(faceImages) :
            faceImages[i].face_encoding = << >>
            => \E t \in Tasks : task[t].pc = "enroll_encode" /\ task[t].face_image = i)
    /\ [][\A t \in Tasks :
            (/\ task[t].pc = "enroll_encode"
             /\ task'[t] # task[t]
             /\ Len(task[t].images[task[t].angle].faces) = 0)
            => LET st == task[t].student_id
                   a == Angles[task[t].angle]
                   created == faceImages[task[t].face_image]
               IN  /\ created.student = st /\ created.angle = a
                   /\ task[t].face_image = Len(faceImages)
                   /\ faceImages' = SubSeq(faceImages, 1, Len(faceImages) - 1)
                   /\ CountOf(faceImages', st, a) = 0
                   /\ a \in task'[t].errors
                   /\ ~task'[t].success]_vars

(* The left image showed no face: the error is noted, the front record is  *)
(* stored with its embedding, no left record exists, the right is next.    *)
NoFaceNoRecordWitness ==
    \E t \in Tasks :
        /\ task[t].kind = "enroll"
        /\ task[t].pc = "enroll_create"
        /\ task[t].angle = 3
        /\ task[t].errors = {"left"}
        /\ ~task[t].success
        /\ CountOf(faceImages, task[t].student_id, "left") = 0
        /\ CountOf(faceImages, task[t].student_id, "front") = 1
        /\ \A i \in 1..Len(faceImages) : faceImages[i].face_encoding # << >>

(* The FaceImage rows load_known_set is to return for a cohort filter *)
Qualifying(course) ==
    {i \in 1..Len(faceImages) :
        /\ faceImages[i].is_active
        /\ faceImages[i].angle = "front"
        /\ faceImages[i].face_encoding # << >>
        /\ students[faceImages[i].student].exists
        /\ students[faceImages[i].student].is_active
        /\ (course # None => students[faceImages[i].student].course = course)}

(* C14: the two sequences load_known_set returns have the same length, and *)
(* their positions are, one for one, the records that are active, of angle *)
(* front and of an active identity (of the cohort when one is given): each *)
(* such record once, with its embedding and its identity at the same       *)
(* position.                                                               *)
KnownSetContract ==
    loaded.called
    => LET known == loaded.known
           n == Len(known.known_encodings)
           q == Qualifying(loaded.course)
       IN  /\ Len(known.known_student_ids) = n
           /\ Cardinality(q) = n
           /\ \E f \in [1..n -> q] :
                 /\ \A j \in 1..n, k \in 1..n : f[j] = f[k] => j = k
                 /\ \A k \in 1..n :
                       /\ known.known_encodings[k] = faceImages[f[k]].face_encoding
                       /\ known.known_student_ids[k] = faceImages[f[k]].student

(* The cohort COET with s2 deactivated and both front records of s1        *)
(* active: the known set is the two embeddings of s1.                      *)
KnownSetContractWitness ==
    /\ loaded.called
    /\ loaded.course = "COET"
    /\ ~students["s2"].is_active
    /\ students["s3"].is_active
    /\ faceImages[3].is_active
    /\ loaded.known = [known_encodings |-> << E_s1, <<1, 0>> >>,
                       known_student_ids |-> << "s1", "s1" >>]

(* C15: after initialize(session), and after the creation of a session,    *)
(* the identities with a record in the session are the active identities   *)
(* of the session's cohort and those that had a record before, and no      *)
(* others; the records that were created are absent.                       *)
InitializeExactlyCohort ==
    [][\A s \in SessionIds :
         (s <= Len(sessions') /\ (InitializeSession(s) \/ Len(sessions) < s))
         => \A st \in StudentIds :
               /\ Len(sessionLogs'[s][st]) > 0
                  <=> \/ st \in ActiveStudentsIn(sessions'[s].course)
                      \/ Len(sessionLogs[s][st]) > 0
               /\ (Len(sessionLogs'[s][st]) > 0 /\ Len(sessionLogs[s][st]) = 0)
                  => sessionLogs'[s][st] = << NewLog >>]_vars

Enrolled(x) ==
    /\ StudentExists(x)
    /\ \A a \in AngleSet : CountOf(faceImages, x, a) = 1
    /\ \A i \in 1..Len(faceImages) :
          faceImages[i].student = x => faceImages[i].face_encoding # << >>
    /\ \A t \in Tasks :
          ~(task[t].kind = "enroll" /\ task[t].student_id = x /\ task[t].pc # "done")

FrontEmbedding(x) ==
    LET i == CHOOSE j \in 1..Len(faceImages) :
                 faceImages[j].student = x /\ faceImages[j].angle = "front"
    IN  faceImages[i].face_encoding

(* Position k of a known set holds x with x's front embedding *)
Holds(known, k, x) ==
    /\ known.known_student_ids[k] = x
    /\ known.known_encodings[k] = FrontEmbedding(x)

(* The frame's first face is within the tolerance of position k of the     *)
(* known set; with nearest, also nearer to it than to every other position *)
WithinOf(known, k, frame, nearest) ==
    /\ Len(frame) > 0
    /\ Norm(known.known_encodings[k], frame[1]) <= Tolerance
    /\ nearest => \A j \in 1..Len(known.known_encodings) :
                     j # k => Norm(known.known_encodings[j], frame[1])
                              > Norm(known.known_encodings[k], frame[1])

(* From enrollment to the present record, step by step: the known set      *)
(* holds the front embedding of an enrolled identity; a run that holds it  *)
(* and reads a frame within the tolerance of it calls mark_attendance for  *)
(* the identity unless it has marked it before; the call goes through and  *)
(* its save leaves the record present, stamped, with confidence >= 1 - 0.6 *)
EndToEndSteps(nearest) ==
    /\ \A x \in StudentIds : Enrolled(x) => Enrolled(x)'
    /\ \A t \in Tasks :
          (task[t].kind = "stream" /\ task'[t] # task[t])
          => \A x \in StudentIds : Enrolled(x) =>
                /\ task[t].pc = "loop"
                   => \A f \in EnrollFrames, quit \in BOOLEAN :
                         \A k \in 1..Len(task[t].known.known_encodings) :
                            (/\ Holds(task[t].known, k, x)
                             /\ WithinOf(task[t].known, k, f, nearest)
                             /\ x \notin task[t].recognized_students
                             /\ LoopCondition(task[t], now)
                             /\ ReadFrame(t, TRUE, f, quit))
                            => /\ task'[t].pc = "get"
                               /\ task'[t].student_id = x
                               /\ task'[t].confidence >= One - Tolerance
                /\ task[t].student_id = x
                   => /\ task[t].pc = "get" => task'[t].pc \in {"create", "save"}
                      /\ task[t].pc = "create" => task'[t].pc = "save"
                      /\ task'[t].pc = "save" => task'[t].session_log.idx # 0
                      /\ (task[t].pc = "save" /\ task[t].session_log.idx # 0)
                         => LET rows == sessionLogs'[task[t].session.id][x]
                            IN  /\ Len(rows) = 1
                                /\ rows[1].status = "present"
                                /\ rows[1].recognized_at # Null
                                /\ rows[1].confidence_score >= One - Tolerance
                                /\ task'[t].pc # "done"
                                   => x \in task'[t].recognized_students

KnownHoldsEnrolled ==
    \A x \in StudentIds : Enrolled(x) =>
        \A course \in {None, students[x].course} :
            \E k \in 1..Len(LoadKnownFaces(course).known_encodings) :
                Holds(LoadKnownFaces(course), k, x)

(* C17 as stated: a frame within the threshold of X's front embedding makes *)
(* the streaming run mark X, whatever else the known set holds.             *)
EndToEndWithinThreshold ==
    [][KnownHoldsEnrolled /\ EndToEndSteps(FALSE)]_vars

(* C17, amended: the frame is within the threshold of X's front embedding  *)
(* and nearer to it than to every other embedding of the run's known set,  *)
(* and the run has not marked X before.                                    *)
EndToEndNearest ==
    [](KnownHoldsEnrolled) /\ [][EndToEndSteps(TRUE)]_vars

(* s1 was enrolled with three valid images, a streaming run of a COET      *)
(* session then saw s1 and the record of s1 is present with confidence 1.0 *)
EndToEndWitness ==
    \E t \in Tasks, e \in Tasks, s \in ExistingSessions :
        /\ task[e].kind = "enroll" /\ task[e].result = "enrolled"
        /\ task[e].student_id = "s1"
        /\ Enrolled("s1")
        /\ sessions[s].course = "COET"
        /\ task[t].kind = "stream" /\ task[t].pc = "loop"
        /\ task[t].session.id = s
        /\ "s1" \in task[t].recognized_students
        /\ Len(Rows(s, "s1")) = 1
        /\ Rows(s, "s1")[1].status = "present"
        /\ Rows(s, "s1")[1].recognized_at = 0
        /\ Rows(s, "s1")[1].confidence_score = One

Workers(s) ==
    {t \in Tasks : /\ task[t].kind = "stream"
                   /\ task[t].pc \in {"load", "loop", "get", "create", "save"}
                   /\ task[t].session.id = s}

(* C19: at every moment at most one streaming worker runs for a session.   *)
OneWorkerPerSession ==
    \A s \in SessionIds : Cardinality(Workers(s)) <= 1

Running(t) ==
    task[t].kind = "stream" /\ task[t].pc \in {"load", "loop", "get", "create", "save"}

NoFaceOrNoMatch(frame, known) ==
    \/ Len(frame) = 0
    \/ \A k \in 1..Len(known.known_encodings) :
          Norm(known.known_encodings[k], frame[1]) > Tolerance

(* C22: a pass of the streaming loop over a frame that yields no face or   *)
(* no match changes no attendance record and not the seen-set, meets no    *)
(* error and leaves the run in its loop with the capture open, ready for   *)
(* the next frame (unless the stop key ends the run).                      *)
SilentFrame ==
    [][\A t \in Tasks, f \in StreamFrames, quit \in BOOLEAN :
         (/\ task[t].kind = "stream"
          /\ task[t].pc = "loop"
          /\ IsActive(task[t].session, now)
          /\ source > 0
          /\ NoFaceOrNoMatch(f, task[t].known)
          /\ ReadFile(t, f, quit))
         => /\ sessionLogs' = sessionLogs
            /\ task'[t].raised = None
            /\ source' = source - 1
            /\ quit => (task'[t].pc = "done" /\ task'[t].result = "stopped")
            /\ ~quit => /\ task'[t].pc = "loop"
                        /\ task'[t].capOpen
                        /\ task'[t].known = task[t].known
                        /\ task'[t].recognized_students
                              = task[t].recognized_students]_vars

(* Every frame of the file has been read without a mark: the run is still  *)
(* in its loop, its seen-set is empty and the cohort's records are absent. *)
SilentFrameWitness ==
    \E t \in Tasks, s \in ExistingSessions :
        /\ task[t].kind = "stream"
        /\ task[t].pc = "loop"
        /\ task[t].session.id = s
        /\ task[t].capOpen
        /\ task[t].recognized_students = {}
        /\ task[t].raised = None
        /\ source = 0
        /\ Len(Rows(s, "s1")) = 1 /\ Rows(s, "s1")[1] = NewLog
        /\ Len(Rows(s, "s2")) = 1 /\ Rows(s, "s2")[1] = NewLog
        /\ Len(Rows(s, "s3")) = 0

(* C23: when the minimal distance is within the tolerance, match returns   *)
(* the identity at the lowest position of the known set that is at that    *)
(* distance, also when several positions are: the result is fixed by the   *)
(* order of the known set.                                                 *)
FirstOccurrenceWins ==
    (matchIn.called /\ Len(matchIn.frame) > 0 /\ Len(matchIn.known.known_encodings) > 0)
    => LET known == matchIn.known
           q == matchIn.frame[1]
           m == MinDistance(known.known_encodings, q)
           first == CHOOSE k \in 1..Len(known.known_encodings) :
                       /\ Norm(known.known_encodings[k], q) = m
                       /\ \A j \in 1..(k - 1) : Norm(known.known_encodings[j], q) > m
       IN  m <= Tolerance
           => matchOut = [student_id |-> known.known_student_ids[first],
                          confidence |-> One - m]

(* The query [0,0] is at 0.6 from both known embeddings: the identity at   *)
(* the first position is returned.                                         *)
FirstOccurrenceWitness ==
    /\ matchIn.called
    /\ matchIn.known = [known_encodings |-> << <<6, 0>>, <<0, 6>> >>,
                        known_student_ids |-> << "s2", "s1" >>]
    /\ matchIn.frame = << <<0, 0>> >>
    /\ Norm(<<6, 0>>, <<0, 0>>) = Norm(<<0, 6>>, <<0, 0>>)
    /\ matchOut = [student_id |-> "s2", confidence |-> 400]

(* C24: on an empty known set match returns no-match for every frame; a   *)
(* streaming run that loads an empty known set ends at once, before it     *)
(* opens the capture, and a single-frame request whose cohort has no known *)
(* embedding is answered at once; neither writes an attendance record.     *)
EmptyKnownSetNoWrite ==
    /\ [](/\ \A f \in StreamFrames :
               RecognizeFaceFromFrame(f, << >>, << >>) = NoMatch
          /\ \A t \in Tasks :
               (Running(t) /\ task[t].pc # "load")
               => Len(task[t].known.known_encodings) > 0)
    /\ [][\A t \in Tasks :
            /\ (/\ task[t].kind = "stream" /\ task[t].pc = "load"
                /\ task'[t] # task[t]
                /\ Len(LoadKnownFaces(None).known_encodings) = 0)
               => /\ sessionLogs' = sessionLogs
                  /\ task'[t].pc = "done" /\ task'[t].result = "no_known_faces"
                  /\ ~task'[t].capOpen
            /\ (/\ task[t].pc = "idle" /\ task'[t].kind = "api"
                /\ Len(LoadKnownFaces(task'[t].session.course).known_encodings) = 0)
               => /\ sessionLogs' = sessionLogs
                  /\ task'[t].pc = "done" /\ task'[t].result = "no_known_faces"]_vars

(* Nobody has enrolled: the streaming run of an active session has ended   *)
(* for want of known faces and the session has no record.                  *)
EmptyKnownSetWitness ==
    \E t \in Tasks, s \in ExistingSessions :
        /\ \A st \in StudentIds : ~StudentExists(st)
        /\ LoadKnownFaces(None) = EmptyKnown
        /\ task[t].kind = "stream"
        /\ task[t].pc = "done"
        /\ task[t].result = "no_known_faces"
        /\ task[t].session.id = s
        /\ IsActive(SessionObject(s), now)
        /\ source = MaxFrames
        /\ \A st \in StudentIds : Len(Rows(s, st)) = 0


(* C25: mark_attendance for an identity of the store that has no record in *)
(* the session does not fail: the get finds nothing and goes on to the     *)
(* create, the create leaves exactly one record (absent when this call     *)
(* made it), and the save leaves that record present with the time and     *)
(* the confidence of the call.                                             *)
MarkCreatesMissingRecord ==
    [][\A t \in Tasks :
         (InMark(t) /\ task'[t].pc # task[t].pc /\ StudentExists(task[t].student_id))
         => LET s == task[t].session.id
                st == task[t].student_id
            IN  /\ (task[t].pc = "get" /\ Len(sessionLogs[s][st]) = 0)
                   => (task'[t].pc = "create" /\ sessionLogs' = sessionLogs)
                /\ task[t].pc = "create"
                   => /\ task'[t].pc = "save"
                      /\ Len(sessionLogs'[s][st]) = 1
                      /\ task'[t].session_log = [idx |-> 1, row |-> sessionLogs'[s][st][1]]
                      /\ Len(sessionLogs[s][st]) = 0 => sessionLogs'[s][st] = << NewLog >>
                /\ task[t].pc = "save"
                   => /\ task'[t].raised = None
                      /\ Len(sessionLogs'[s][st]) = 1
                      /\ sessionLogs'[s][st][1].status = "present"
                      /\ sessionLogs'[s][st][1].recognized_at = now
                      /\ sessionLogs'[s][st][1].confidence_score = task[t].confidence
                      /\ task[t].kind = "api" => task'[t].result = "marked"]_vars

(* A session of course BIT was created when BIT had no student, so it got  *)
(* no record at all; a run has since marked s1 in it: the one record of    *)
(* the session is present with time and confidence.                        *)
MarkCreatesWitness ==
    \E t \in Tasks, s \in ExistingSessions :
        /\ sessions[s].course = "BIT"
        /\ task[t].kind = "stream" /\ task[t].pc = "loop"
        /\ task[t].session.id = s
        /\ task[t].recognized_students = {"s1"}
        /\ StudentExists("s1")
        /\ Len(Rows(s, "s1")) = 1
        /\ Rows(s, "s1")[1].status = "present"
        /\ Rows(s, "s1")[1].recognized_at = 0
        /\ Rows(s, "s1")[1].confidence_score = One
        /\ Len(Rows(s, "s2")) = 0


(* The step is an operation on session s: initialize, end, or a step of a  *)
(* recognition request or streaming run for s                              *)
OperationOn(s) ==
    \/ InitializeSession(s)
    \/ EndSession(s)
    \/ \E t \in Tasks :
          /\ task'[t] # task[t]
          /\ (task[t].session.id = s \/ task'[t].session.id = s)

(* C26: an operation on one session (initialize, a single-frame request,   *)
(* a step of a streaming run, end) leaves the records and the row of every *)
(* other session as they were, also while a run of the other session is    *)
(* under way; no step changes two sessions.                                *)
SessionsIndependent ==
    [][\A s1 \in DOMAIN sessions, s2 \in DOMAIN sessions :
         s1 # s2
         => /\ OperationOn(s1)
               => /\ sessionLogs'[s2] = sessionLogs[s2]
                  /\ sessions'[s2] = sessions[s2]
            /\ ~(/\ (sessionLogs'[s1] # sessionLogs[s1] \/ sessions'[s1] # sessions[s1])
                 /\ (sessionLogs'[s2] # sessionLogs[s2] \/ sessions'[s2] # sessions[s2]))]_vars

(* Two COET sessions with a streaming run each, both in their loops: the   *)
(* first session is ended and holds s1 and s3 present, the second is       *)
(* active, initialized, and holds only s3 present.                         *)
SessionsIndependentWitness ==
    /\ Len(sessions) = 2
    /\ sessions[1].course = "COET" /\ sessions[2].course = "COET"
    /\ sessions[1].status = "completed" /\ sessions[2].status = "active"
    /\ task["t1"].kind = "stream" /\ task["t1"].pc = "loop"
    /\ task["t1"].session.id = 1
    /\ task["t1"].recognized_students = {"s1", "s3"}
    /\ task["t2"].kind = "stream" /\ task["t2"].pc = "loop"
    /\ task["t2"].session.id = 2
    /\ task["t2"].recognized_students = {"s3"}
    /\ sessionLogs[1]["s1"][1].status = "present"
    /\ sessionLogs[1]["s2"][1].status = "absent"
    /\ sessionLogs[1]["s3"][1].status = "present"
    /\ sessionLogs[2]["s1"][1].status = "absent"
    /\ sessionLogs[2]["s2"][1].status = "absent"
    /\ sessionLogs[2]["s3"][1].status = "present"


(* The active identities of the session's cohort without a present record  *)
NotPresent(s) ==
    {st \in ActiveStudentsIn(sessions[s].course) :
        \A i \in 1..Len(Rows(s, st)) : Rows(s, st)[i].status # "present"}

(* C27: in every reachable state the statistics of a session satisfy       *)
(* 0 <= present_count <= total, absent_count >= 0, 0 <= percentage <= 100, *)
(* and absent_count is the number of active identities of the cohort that  *)
(* are not present.                                                        *)
StatisticsBounded ==
    \A s \in ExistingSessions :
        LET stats == GetAttendanceStatistics(s)
        IN  /\ 0 <= stats.present_count
            /\ stats.present_count <= stats.total_students
            /\ stats.absent_count >= 0
            /\ 0 <= stats.attendance_percentage
            /\ stats.attendance_percentage <= 100 * One
            /\ stats.absent_count = Cardinality(NotPresent(s))


(* What load_known_faces(course) returns, position by position, and its    *)
(* positions of identities other than x                                    *)
KnownPairs(course) ==
    LET known == LoadKnownFaces(course)
    IN  [k \in 1..Len(known.known_encodings) |->
            << known.known_student_ids[k], known.known_encodings[k] >>]

KnownOfOthers(course, x) == SelectSeq(KnownPairs(course), LAMBDA p : p[1] # x)

FailedEnrollment == {"missing_images", "face_errors"}

(* C28: an enrollment that reports a missing image or an image without a   *)
(* face leaves neither the identity nor any of its records in the store,   *)
(* and the known set is what it was before the command: the command starts *)
(* with nothing of the identity in the known set, none of its steps        *)
(* changes another identity's row or known-set position, and when it       *)
(* reports the failure the known set holds nothing of the identity.        *)
EnrollAllOrNothing ==
    /\ [](\A x \in StudentIds : ~StudentExists(x) =>
            \A a \in AngleSet : CountOf(faceImages, x, a) = 0)
    /\ [][\A t \in Tasks, x \in StudentIds :
            (/\ task'[t] # task[t] /\ task'[t].kind = "enroll" /\ task[t].pc # "done"
             /\ task'[t].student_id = x)
            =>     /\ \A y \in StudentIds \ {x} : students'[y] = students[y]
                   /\ SelectSeq(faceImages', LAMBDA r : r.student # x)
                         = SelectSeq(faceImages, LAMBDA r : r.student # x)
                   /\ \A course \in Courses \cup {None} :
                         /\ KnownOfOthers(course, x)' = KnownOfOthers(course, x)
                         /\ task'[t].pc = "enroll_images"
                            => KnownPairs(course) = KnownOfOthers(course, x)
                         /\ (task'[t].pc = "done" /\ task'[t].result \in FailedEnrollment)
                            => KnownPairs(course)' = KnownOfOthers(course, x)
                   /\ (task'[t].pc = "done" /\ task'[t].result \in FailedEnrollment)
                      => /\ ~StudentExists(x)'
                         /\ \A a \in AngleSet : CountOf(faceImages', x, a) = 0]_vars

(* The enrollment of s1 has failed on its left image after the front       *)
(* record had been stored: s1 and its records are gone, and the store is   *)
(* the one of before, with s2 alone.                                       *)
EnrollAllOrNothingWitness ==
    \E t \in Tasks :
        /\ task[t].kind = "enroll" /\ task[t].pc = "done"
        /\ task[t].student_id = "s1"
        /\ task[t].result = "face_errors"
        /\ task[t].errors = {"left"}
        /\ ~StudentExists("s1")
        /\ faceImages = EnrolledImages("s2", E_s2, E_side, E_side, 0)
        /\ KnownPairs(None) = << << "s2", E_s2 >> >>


(* C29: a write that leaves a record present is made only while the        *)
(* record's identity is active: neither a streaming run, with the known    *)
(* set it loaded at its start, nor a single-frame request marks an         *)
(* identity that is deactivated at the time of the write.                  *)
PresentOnlyWhileActive ==
    [][\A s \in SessionIds, st \in StudentIds :
         (/\ sessionLogs'[s][st] # sessionLogs[s][st]
          /\ \E i \in 1..Len(sessionLogs'[s][st]) :
                sessionLogs'[s][st][i].status = "present")
         => (StudentExists(st) /\ students[st].is_active)]_vars

====
